---- MODULE Spec2Model ----
(***************************************************************************)
(* Model of the prompt-tuning core of pr-faq-validator:                    *)
(*   scripts/prompt_tuning/convergence_detector.py  (ConvergenceDetector)  *)
(*   scripts/prompt_tuning/evolutionary_tuner.py    (EvolutionaryTuner)    *)
(*   scripts/prompt_tuning/prompt_tuning_config.py  (load/save_prompts)    *)
(*                                                                         *)
(* Scores are real numbers in the program.  The model counts them in       *)
(* units of 0.05 point (Points(100) = 2000 units, 100.05 = 2001 units) and *)
(* computes with exact integer arithmetic; percentages are compared by     *)
(* cross-multiplication, so no rounding is introduced.                     *)
(***************************************************************************)
EXTENDS Integers, Sequences, FiniteSets, TLC

VARIABLES
    detector,          \* Optional ConvergenceDetector: None or Some(record)
    caller,            \* the code driving a stand-alone detector
    recommendation_calls, \* get_recommendations() calls since the last update
    recommendations,   \* value returned by the last get_recommendations()
    pc,                \* where run_evolution stands
    max_iterations,    \* argument of run_evolution
    scorer,            \* the scores the evaluation of a mutation can yield
    prompts_dir,       \* the prompt files: prompt name -> text on disk
    iteration,         \* loop variable of run_evolution (0: baseline)
    current_prompts,   \* local of run_evolution
    mutated_prompts,   \* local of run_evolution
    original_prompts,  \* local of _evaluate_prompts
    files_before,      \* history variable: the prompt files as they were
                       \* when the running _evaluate_prompts call started
    baseline_score,    \* baseline_results["aggregate_scores"]["overall"]
    best_score,        \* EvolutionaryTuner.best_score
    best_prompts,      \* EvolutionaryTuner.best_prompts
    iteration_history, \* EvolutionaryTuner.iteration_history
    final_results,     \* value returned by run_evolution
    mutator_calls,     \* calls of _mutate_prompts started so far
    scorer_calls,      \* calls of _evaluate_prompts started so far
    evaluator_pc,      \* where QualityEvaluator.evaluate_results stands
    simulation_results, \* argument of evaluate_results
    evaluation_results, \* local of evaluate_results, its return value
    evaluator_replies, \* history variable: what the evaluator client
                       \* returned for each test case evaluated so far
    optimizer_pc,      \* where run_progressive_optimization stands
    rounds,            \* ProgressiveOptimizer.rounds
    round_num,         \* loop variable of run_progressive_optimization
    previous_best,     \* history variable: the best_prompts the previous
                       \* round returned (None in the first round)
    client_pc,         \* where AssistantLLMClient.generate stands
    global_request_counter, \* llm_client._global_request_counter
    request_id,        \* local of generate
    request_dir,       \* .pr-faq-validator/llm_requests: id -> file
    response_dir,      \* .pr-faq-validator/llm_responses: id -> file
    responder_pc,      \* where AutoResponder.process_requests stands
    processed_requests, \* AutoResponder.processed_requests
    new_requests,      \* local of process_requests: what is left of it
    request_data,      \* local of process_requests
    experiments,       \* history variable: the experiments started so far
    requests_made,     \* history variable: the generate() calls so far
    returned,          \* history variable: the last generate() call
                       \* that returned, and the request its value was
                       \* generated from (None: no call has returned)
    error_log          \* the request files for which the running
                       \* responder has printed "Error processing"

detector_vars == << detector, caller, recommendation_calls, recommendations >>

tuner_vars == << pc, max_iterations, scorer, prompts_dir, iteration,
                 current_prompts, mutated_prompts, original_prompts,
                 files_before,
                 baseline_score, best_score, best_prompts, iteration_history,
                 final_results, mutator_calls, scorer_calls >>

evaluator_vars == << evaluator_pc, simulation_results, evaluation_results,
                     evaluator_replies >>

optimizer_vars == << optimizer_pc, rounds, round_num, previous_best >>

protocol_vars == << client_pc, global_request_counter, request_id,
                    request_dir, response_dir, responder_pc,
                    processed_requests, new_requests, request_data,
                    experiments, requests_made, returned, error_log >>

vars == << detector, caller, recommendation_calls, recommendations,
           pc, max_iterations, scorer, prompts_dir, iteration,
           current_prompts, mutated_prompts, original_prompts,
           files_before,
           baseline_score, best_score, best_prompts, iteration_history,
           final_results, mutator_calls, scorer_calls,
           evaluator_pc, simulation_results, evaluation_results,
           evaluator_replies,
           optimizer_pc, rounds, round_num, previous_best,
           client_pc, global_request_counter, request_id,
           request_dir, response_dir, responder_pc,
           processed_requests, new_requests, request_data,
           experiments, requests_made, returned, error_log >>

(***************************************************************************)
(* Values                                                                  *)
(***************************************************************************)
None == << >>
Some(x) == << x >>
Value(opt) == opt[1]

Points(n) == 20 * n

Max(a, b) == IF a >= b THEN a ELSE b

\* a percentage num/den, den > 0
Percent(num, den) == [num |-> num, den |-> den]

RECURSIVE SeqSum(_)
SeqSum(s) == IF s = << >> THEN 0 ELSE Head(s) + SeqSum(Tail(s))

SeqMax(s) == CHOOSE m \in { s[i] : i \in DOMAIN s } : \A i \in DOMAIN s : s[i] <= m
SeqMin(s) == CHOOSE m \in { s[i] : i \in DOMAIN s } : \A i \in DOMAIN s : s[i] >= m

\* a mean kept as the exact fraction sum/count; 0.0 is 0/1
Mean(sum, count) == [sum |-> sum, count |-> count]

\* "not x" of an Optional[int]: None and 0 are both falsy
Falsy(opt) == opt = None \/ opt = Some(0)

(***************************************************************************)
(* ConvergenceConfig and ConvergenceDetector                               *)
(***************************************************************************)
DefaultNoImprovementThreshold == 5

ConvergenceConfig(threshold, percent, early_stop) ==
    [ no_improvement_threshold |-> threshold,
      min_improvement_percent  |-> percent,
      enable_early_stop        |-> early_stop ]

\* ConvergenceDetector.__init__
NewDetector(config) ==
    [ config                |-> config,
      iteration_history     |-> << >>,
      best_score            |-> 0,
      no_improvement_count  |-> 0,
      converged             |-> FALSE,
      convergence_iteration |-> None ]

\* mutant: on a best of 0 the improvement is taken to be 0%, not 100%
SignificantWithoutBootstrap(d, score) ==
    LET min == d.config.min_improvement_percent
    IN  IF d.best_score > 0
        THEN (score - d.best_score) * 100 * min.den >= min.num * d.best_score
        ELSE 0 * min.den >= min.num

\* mutant: the gain is compared as a fraction, not as a percentage
SignificantAsFraction(d, score) ==
    LET min == d.config.min_improvement_percent
    IN  IF d.best_score > 0
        THEN (score - d.best_score) * min.den >= min.num * d.best_score
        ELSE 100 * min.den >= min.num

\* improvement_percent >= config.min_improvement_percent, where
\* improvement_percent = (score - best) / best * 100 if best > 0 else 100
SignificantImprovement(d, score) ==
    LET min == d.config.min_improvement_percent
    IN  IF d.best_score > 0
        THEN (score - d.best_score) * 100 * min.den >= min.num * d.best_score
        ELSE 100 * min.den >= min.num

\* mutant: the threshold must be exceeded, not reached
ThresholdExceeded(d, count) == count > d.config.no_improvement_threshold

\* no_improvement_count >= config.no_improvement_threshold
ThresholdReached(d, count) == count >= d.config.no_improvement_threshold

\* mutant: every score that differs from the best is adopted
AdoptsAnyOtherScore(d, score) == score # d.best_score

\* mutant: every higher score is adopted, significant or not
AdoptsAnyHigherScore(d, score) == score > d.best_score

\* the branch of update() that adopts the score and resets the counter
Adopts(d, score) ==
    score > d.best_score /\ SignificantImprovement(d, score)

\* mutant: convergence is declared again on every update that finds the
\* counter at or above the threshold, "and not self.converged" left out
update_declaring_again(d, iter, score, improved) ==
    LET entry == [ iteration  |-> iter,
                   score      |-> score,
                   improved   |-> improved,
                   best_score |-> Max(d.best_score, score) ]
        best  == IF Adopts(d, score) THEN score ELSE d.best_score
        count == IF Adopts(d, score) THEN 0 ELSE d.no_improvement_count + 1
        fires == ThresholdReached(d, count)
    IN  [ d EXCEPT !.iteration_history     = Append(@, entry),
                   !.best_score            = best,
                   !.no_improvement_count  = count,
                   !.converged             = IF fires THEN TRUE ELSE @,
                   !.convergence_iteration = IF fires THEN Some(iter) ELSE @ ]

\* mutant: convergence records the iteration that started the streak
update_recording_streak_start(d, iter, score, improved) ==
    LET entry == [ iteration  |-> iter,
                   score      |-> score,
                   improved   |-> improved,
                   best_score |-> Max(d.best_score, score) ]
        best  == IF Adopts(d, score) THEN score ELSE d.best_score
        count == IF Adopts(d, score) THEN 0 ELSE d.no_improvement_count + 1
        fires == ThresholdReached(d, count) /\ ~d.converged
    IN  [ d EXCEPT !.iteration_history     = Append(@, entry),
                   !.best_score            = best,
                   !.no_improvement_count  = count,
                   !.converged             = IF fires THEN TRUE ELSE @,
                   !.convergence_iteration =
                        IF fires THEN Some(iter - count + 1) ELSE @ ]

\* ConvergenceDetector.update: the detector after the call
update(d, iter, score, improved) ==
    LET entry == [ iteration  |-> iter,
                   score      |-> score,
                   improved   |-> improved,
                   best_score |-> Max(d.best_score, score) ]
        best  == IF Adopts(d, score) THEN score ELSE d.best_score
        count == IF Adopts(d, score) THEN 0 ELSE d.no_improvement_count + 1
        fires == ThresholdReached(d, count) /\ ~d.converged
    IN  [ d EXCEPT !.iteration_history     = Append(@, entry),
                   !.best_score            = best,
                   !.no_improvement_count  = count,
                   !.converged             = IF fires THEN TRUE ELSE @,
                   !.convergence_iteration = IF fires THEN Some(iter) ELSE @ ]

\* mutant: enable_early_stop is not consulted
should_stop_ignoring_config(d) == d.converged

\* ConvergenceDetector.should_stop
should_stop(d) ==
    IF ~d.config.enable_early_stop THEN FALSE ELSE d.converged

\* scores of the iterations numbered after the convergence iteration
PlateauScores(d) ==
    LET after == SelectSeq(d.iteration_history,
                     LAMBDA it : it.iteration > Value(d.convergence_iteration))
    IN  [ i \in DOMAIN after |-> after[i].score ]

\* ConvergenceDetector._calculate_plateau_stats
calculate_plateau_stats(d) ==
    IF ~d.converged \/ Falsy(d.convergence_iteration)
    THEN [ variance |-> 0, avg |-> Mean(0, 1), min |-> 0, max |-> 0 ]
    ELSE IF PlateauScores(d) = << >>
    THEN [ variance |-> 0, avg |-> Mean(0, 1), min |-> 0, max |-> 0 ]
    ELSE LET scores == PlateauScores(d)
         IN  [ variance |-> SeqMax(scores) - SeqMin(scores),
               avg      |-> Mean(SeqSum(scores), Len(scores)),
               min      |-> SeqMin(scores),
               max      |-> SeqMax(scores) ]

\* ConvergenceDetector._calculate_wasted_iterations
calculate_wasted_iterations(d) ==
    IF ~d.converged \/ Falsy(d.convergence_iteration)
    THEN 0
    ELSE Len(d.iteration_history) - Value(d.convergence_iteration)

\* ConvergenceDetector.get_status
get_status(d) ==
    [ converged             |-> d.converged,
      convergence_iteration |-> d.convergence_iteration,
      no_improvement_count  |-> d.no_improvement_count,
      best_score            |-> d.best_score,
      should_stop           |-> should_stop(d),
      plateau_variance      |-> calculate_plateau_stats(d).variance,
      plateau_avg           |-> calculate_plateau_stats(d).avg,
      total_iterations      |-> Len(d.iteration_history),
      wasted_iterations     |-> calculate_wasted_iterations(d) ]

\* f"{variance:.2f}": a score of u units of 0.05 prints as 5 * u hundredths
TwoDecimals(units) == 5 * units

\* the entries of iteration_history with it["improved"] and it["score"] > 0
Improvements(d) ==
    SelectSeq(d.iteration_history, LAMBDA it : it.improved /\ it.score > 0)

\* the diminishing-returns test of get_recommendations:
\*   len(history) >= 3, len(improvements) >= 2, last_delta < first_delta / 2
DiminishingReturns(d) ==
    /\ Len(d.iteration_history) >= 3
    /\ Len(Improvements(d)) >= 2
    /\ LET imp         == Improvements(d)
           n           == Len(imp)
           first_delta == imp[1].score - (imp[1].best_score - imp[1].score)
           last_delta  == imp[n].score - imp[n - 1].best_score
       IN  2 * last_delta < first_delta

\* ConvergenceDetector.get_recommendations: the returned list
get_recommendations(d) ==
    LET wasted   == calculate_wasted_iterations(d)
        variance == calculate_plateau_stats(d).variance
    IN  (IF d.converged /\ wasted > 0
         THEN << [ kind |-> "could_have_stopped_earlier",
                   at   |-> d.convergence_iteration,
                   n    |-> wasted ] >>
         ELSE << >>)
        \o
        (IF variance > Points(5)
         THEN << [ kind |-> "high_plateau_variance",
                   at   |-> None,
                   n    |-> TwoDecimals(variance) ] >>
         ELSE << >>)
        \o
        (IF DiminishingReturns(d)
         THEN << [ kind |-> "diminishing_returns", at |-> None, n |-> 0 ] >>
         ELSE << >>)

(***************************************************************************)
(* A stand-alone detector driven by arbitrary calls                        *)
(***************************************************************************)
\* updates a caller makes beyond the detector's no_improvement_threshold
ExtraUpdates == 2

\* get_recommendations() calls a caller makes between two updates
MaxRepeatedCalls == 2

\* ConvergenceConfig is a dataclass without validation: any integer is
\* accepted as no_improvement_threshold, 0 included
DetectorThresholds == { 0, 1, 2, DefaultNoImprovementThreshold }
DetectorPercents   == { Percent(0, 1), Percent(1, 10) }

DetectorConfigs ==
    { ConvergenceConfig(t, p, e) :
        t \in DetectorThresholds, p \in DetectorPercents, e \in BOOLEAN }

\* the scores a caller reports, one pool per run
ScorePools ==
    { { 0, Points(10), Points(20) },
      { Points(100), Points(100) + 1, Points(100) + 4 } }

\* how a caller computes the improved flag it passes to update()
FlagPolicies == { "score_above_best", "always", "never" }

ImprovedFlag(policy, d, score) ==
    CASE policy = "score_above_best" -> score > d.best_score
      [] policy = "always"           -> TRUE
      [] policy = "never"            -> FALSE

DetectorInit ==
    /\ \E config \in DetectorConfigs : detector = Some(NewDetector(config))
    /\ \E pool \in ScorePools, first \in 0..1, policy \in FlagPolicies :
          caller = [ scores |-> pool, first |-> first, flags |-> policy ]
    /\ recommendation_calls = 0
    /\ recommendations = None
    \* no EvolutionaryTuner exists in a run of the stand-alone detector
    /\ pc = "no_tuner"
    /\ max_iterations = 0
    /\ scorer = { }
    /\ prompts_dir = << >>
    /\ iteration = 0
    /\ current_prompts = << >>
    /\ mutated_prompts = << >>
    /\ original_prompts = << >>
    /\ files_before = << >>
    /\ baseline_score = None
    /\ best_score = 0
    /\ best_prompts = << >>
    /\ iteration_history = << >>
    /\ final_results = None
    /\ mutator_calls = 0
    /\ scorer_calls = 0
    \* and no QualityEvaluator
    /\ evaluator_pc = "no_evaluator"
    /\ simulation_results = None
    /\ evaluation_results = None
    /\ evaluator_replies = << >>
    \* and no ProgressiveOptimizer
    /\ optimizer_pc = "no_optimizer"
    /\ rounds = 0
    /\ round_num = 0
    /\ previous_best = None
    \* and no file-based LLM client or responder
    /\ client_pc = "no_client"
    /\ global_request_counter = 0
    /\ request_id = 0
    /\ request_dir = << >>
    /\ response_dir = << >>
    /\ responder_pc = "no_responder"
    /\ processed_requests = { }
    /\ new_requests = << >>
    /\ request_data = None
    /\ experiments = 0
    /\ requests_made = 0
    /\ returned = None
    /\ error_log = { }

\* detector.update(iteration, score, improved) with the next iteration number
Update ==
    LET d == Value(detector)
    IN  /\ Len(d.iteration_history)
              < d.config.no_improvement_threshold + ExtraUpdates
        /\ \E score \in caller.scores :
              detector' = Some(update(d,
                                      caller.first + Len(d.iteration_history),
                                      score,
                                      ImprovedFlag(caller.flags, d, score)))
        /\ recommendation_calls' = 0
        /\ recommendations' = None
        /\ UNCHANGED caller

\* mutant: reading the last improvement pops it off the history
GetRecommendationsPopping ==
    /\ recommendation_calls < MaxRepeatedCalls
    /\ recommendations' = Some(get_recommendations(Value(detector)))
    /\ recommendation_calls' = recommendation_calls + 1
    /\ detector' =
          LET d == Value(detector)
          IN  Some([ d EXCEPT !.iteration_history =
                        IF @ = << >> THEN @ ELSE SubSeq(@, 1, Len(@) - 1) ])
    /\ UNCHANGED caller

\* detector.get_recommendations()
GetRecommendations ==
    /\ recommendation_calls < MaxRepeatedCalls
    /\ recommendations' = Some(get_recommendations(Value(detector)))
    /\ recommendation_calls' = recommendation_calls + 1
    /\ UNCHANGED << detector, caller >>

DetectorNext ==
    \/ Update /\ UNCHANGED tuner_vars /\ UNCHANGED evaluator_vars
         /\ UNCHANGED optimizer_vars /\ UNCHANGED protocol_vars
    \/ GetRecommendations /\ UNCHANGED tuner_vars /\ UNCHANGED evaluator_vars
         /\ UNCHANGED optimizer_vars /\ UNCHANGED protocol_vars

DetectorSpec == DetectorInit /\ [][DetectorNext]_vars

(***************************************************************************)
(* Prompt files (prompt_tuning_config.py)                                  *)
(***************************************************************************)
\* A prompt text: where it came from, and whether it holds carriage
\* returns.  The files are opened in text mode: write() stores "\r" as it
\* is, read() hands every "\r\n" and "\r" back as "\n".
Text(origin, n, cr) == [ origin |-> origin, n |-> n, cr |-> cr ]

\* f.read() of a file that holds text t
ReadText(t) == [ t EXCEPT !.cr = FALSE ]

\* load_prompts: the mapping read from the prompts directory
load_prompts(dir) == [ name \in DOMAIN dir |-> ReadText(dir[name]) ]

\* save_prompts: the prompts directory after writing one file per prompt
save_prompts(dir, prompts) ==
    [ name \in DOMAIN dir \cup DOMAIN prompts |->
        IF name \in DOMAIN prompts THEN prompts[name] ELSE dir[name] ]

\* EvolutionaryTuner._get_default_prompt
get_default_prompt == Text("default", 0, FALSE)

(***************************************************************************)
(* EvolutionaryTuner                                                       *)
(***************************************************************************)
TunerNoImprovementThreshold == 5
DefaultMaxIterations == 20

\* iterations of a run whose scores vary freely
MaxIterations == 7

\* EvolutionaryTuner.__init__: self.convergence_detector
TunerDetector(enable_convergence_detection) ==
    IF enable_convergence_detection
    THEN Some(NewDetector(ConvergenceConfig(TunerNoImprovementThreshold,
                                            Percent(1, 10),
                                            enable_convergence_detection)))
    ELSE None

\* the aggregate scores an evaluation yields: 65, 70 and 70.05 points
TunerScores == { Points(65), Points(70), Points(70) + 1 }

\* the aggregate scores of a run some of whose mutations produce output
\* that is given the score 0
LowScores == { 0, Points(65) }

\* <<max_iterations, scores of the mutations>>: short runs with any scores,
\* short runs with mutations scoring 0, and runs of the default length in
\* which every mutation scores the same
RunInputs ==
    { << m, TunerScores >> : m \in 0..MaxIterations }
    \cup { << m, LowScores >> : m \in 0..MaxIterations }
    \cup { << DefaultMaxIterations, { s } >> : s \in TunerScores }

\* the prompts directory before the run: missing, or one prompt file
InitialPromptDirs ==
    { << >>, [ n \in { "pr_faq_generation" } |-> Text("file", 0, FALSE) ] }

\* _mutate_prompts: one generated text per prompt name
mutate_prompts(prompts, iter, cr) ==
    [ name \in DOMAIN prompts |-> Text("mutation", iter, cr) ]

\* mutant: the loop has no upper bound
InRangeUnbounded(iter, max) == 1 <= iter

\* mutant: the loop runs over range(1, max_iterations)
InRangeExclusive(iter, max) == 1 <= iter /\ iter < max

\* for iteration in range(1, max_iterations + 1): iter is in the range
InRange(iter, max) == 1 <= iter /\ iter <= max

\* mutant: any score other than the best counts as an improvement
ImprovedOrDifferent(score, best) == score # best

\* improved = current_score > self.best_score
Improved(score, best) == score > best

\* mutant: the loop goes on from the mutated prompts, kept or not
NextCurrentPromptsAlwaysMutated(improved, mutated, current) == mutated

\* current_prompts after the keep/discard decision: the mutated prompts
\* if they were kept, and otherwise the prompts they were mutated from
NextCurrentPrompts(improved, mutated, current) ==
    IF improved THEN mutated ELSE current

\* mutant: without a detector the loop stops after the first iteration
BreaksWithoutDetector(det) == det = None \/ should_stop(Value(det))

\* mutant: the loop has no break
NeverBreaks(det) == FALSE

\* the break of the evolutionary loop
Breaks(det) == det # None /\ should_stop(Value(det))

\* final_results of run_evolution
FinalResults(max, baseline, best, prompts, history, det) ==
    [ max_iterations    |-> max,
      baseline_score    |-> baseline,
      final_score       |-> best,
      improvement       |-> best - baseline,
      iteration_history |-> history,
      best_prompts      |-> prompts,
      convergence       |-> IF det # None
                            THEN Some(get_status(Value(det))) ELSE None,
      recommendations   |-> IF det # None
                            THEN get_recommendations(Value(det)) ELSE << >> ]

Init ==
    /\ \E enable \in BOOLEAN : detector = TunerDetector(enable)
    /\ \E input \in RunInputs : max_iterations = input[1] /\ scorer = input[2]
    /\ prompts_dir \in InitialPromptDirs
    /\ pc = "constructed"
    /\ iteration = 0
    /\ current_prompts = << >>
    /\ mutated_prompts = << >>
    /\ original_prompts = << >>
    /\ files_before = << >>
    /\ baseline_score = None
    /\ best_score = 0
    /\ best_prompts = << >>
    /\ iteration_history = << >>
    /\ final_results = None
    /\ mutator_calls = 0
    /\ scorer_calls = 0
    /\ caller = None
    /\ recommendation_calls = 0
    /\ recommendations = None
    \* the evaluator is behind the scores the run draws from scorer
    /\ evaluator_pc = "no_evaluator"
    /\ simulation_results = None
    /\ evaluation_results = None
    /\ evaluator_replies = << >>
    \* and no ProgressiveOptimizer
    /\ optimizer_pc = "no_optimizer"
    /\ rounds = 0
    /\ round_num = 0
    /\ previous_best = None
    \* and no file-based LLM client or responder
    /\ client_pc = "no_client"
    /\ global_request_counter = 0
    /\ request_id = 0
    /\ request_dir = << >>
    /\ response_dir = << >>
    /\ responder_pc = "no_responder"
    /\ processed_requests = { }
    /\ new_requests = << >>
    /\ request_data = None
    /\ experiments = 0
    /\ requests_made = 0
    /\ returned = None
    /\ error_log = { }

\* run_evolution up to its first suspension: load the initial prompts (the
\* default prompt if there are none) and start the baseline evaluation,
\* which writes the prompts under test to the prompts directory
RunEvolution ==
    /\ pc = "constructed"
    /\ LET loaded  == load_prompts(prompts_dir)
           current == IF loaded = << >>
                      THEN [ n \in { "pr_faq_generation" } |-> get_default_prompt ]
                      ELSE loaded
           dir     == IF loaded = << >>
                      THEN save_prompts(prompts_dir, current) ELSE prompts_dir
       IN  /\ current_prompts' = current
           /\ original_prompts' = load_prompts(dir)
           /\ files_before' = dir
           /\ prompts_dir' = save_prompts(dir, current)
    /\ pc' = "evaluating"
    /\ scorer_calls' = scorer_calls + 1
    /\ UNCHANGED << detector, max_iterations, scorer, iteration,
                    mutated_prompts, baseline_score, best_score, best_prompts,
                    iteration_history, final_results, mutator_calls >>

\* the baseline evaluation returns: it becomes the best, and the loop
\* starts its first mutation or, with no iteration to run, the run returns
BaselineScored ==
    /\ pc = "evaluating" /\ iteration = 0
    /\ \E score \in TunerScores :
          /\ baseline_score' = Some(score)
          /\ best_score' = score
          /\ best_prompts' = current_prompts
          /\ IF InRange(1, max_iterations)
             THEN /\ pc' = "mutating"
                  /\ iteration' = 1
                  /\ mutator_calls' = mutator_calls + 1
                  /\ final_results' = None
             ELSE /\ pc' = "done"
                  /\ final_results' =
                        Some(FinalResults(max_iterations, score, score,
                                          current_prompts, iteration_history,
                                          detector))
                  /\ UNCHANGED << iteration, mutator_calls >>
    /\ UNCHANGED << detector, max_iterations, scorer, prompts_dir,
                    current_prompts, mutated_prompts, original_prompts,
                    files_before, iteration_history, scorer_calls >>

\* mutant: when the evaluation of an iteration starts, the mutation of the
\* next iteration is started alongside it
MutatedSpeculating ==
    /\ pc = "mutating"
    /\ \E cr \in BOOLEAN :
          LET mutated == mutate_prompts(current_prompts, iteration, cr)
          IN  /\ mutated_prompts' = mutated
              /\ original_prompts' = load_prompts(prompts_dir)
              /\ files_before' = prompts_dir
              /\ prompts_dir' = save_prompts(prompts_dir, mutated)
    /\ pc' = "evaluating"
    /\ scorer_calls' = scorer_calls + 1
    /\ mutator_calls' = mutator_calls + 1
    /\ UNCHANGED << detector, max_iterations, scorer, iteration,
                    current_prompts, baseline_score, best_score, best_prompts,
                    iteration_history, final_results >>

\* the mutation returns and the evaluation of the mutated prompts starts,
\* which writes them to the prompts directory
Mutated ==
    /\ pc = "mutating"
    /\ \E cr \in BOOLEAN :
          LET mutated == mutate_prompts(current_prompts, iteration, cr)
          IN  /\ mutated_prompts' = mutated
              /\ original_prompts' = load_prompts(prompts_dir)
              /\ files_before' = prompts_dir
              /\ prompts_dir' = save_prompts(prompts_dir, mutated)
    /\ pc' = "evaluating"
    /\ scorer_calls' = scorer_calls + 1
    /\ UNCHANGED << detector, max_iterations, scorer, iteration,
                    current_prompts, baseline_score, best_score, best_prompts,
                    iteration_history, final_results, mutator_calls >>

\* the evaluation of a mutation returns: the prompts directory is restored,
\* the mutation is kept or discarded, the iteration is recorded, the
\* detector is updated, and the loop goes on, breaks or ends
IterationScored ==
    /\ pc = "evaluating" /\ iteration >= 1
    /\ \E score \in scorer :
          LET restored == save_prompts(prompts_dir, original_prompts)
              improved == Improved(score, best_score)
              best     == IF improved THEN score ELSE best_score
              prompts  == IF improved THEN mutated_prompts ELSE best_prompts
              history  == Append(iteration_history,
                                 [ iteration  |-> iteration,
                                   score      |-> score,
                                   best_score |-> best,
                                   improved   |-> improved ])
              det      == IF detector # None
                          THEN Some(update(Value(detector), iteration, score,
                                           improved))
                          ELSE None
              more     == ~Breaks(det)
                          /\ InRange(iteration + 1, max_iterations)
          IN  /\ best_score' = best
              /\ best_prompts' = prompts
              /\ current_prompts' =
                    NextCurrentPrompts(improved, mutated_prompts,
                                       current_prompts)
              /\ prompts_dir' =
                    IF improved THEN save_prompts(restored, prompts)
                    ELSE restored
              /\ iteration_history' = history
              /\ detector' = det
              /\ IF more
                 THEN /\ pc' = "mutating"
                      /\ iteration' = iteration + 1
                      /\ mutator_calls' = mutator_calls + 1
                      /\ final_results' = None
                 ELSE /\ pc' = "done"
                      /\ final_results' =
                            Some(FinalResults(max_iterations,
                                              Value(baseline_score), best,
                                              prompts, history, det))
                      /\ UNCHANGED << iteration, mutator_calls >>
    /\ UNCHANGED << max_iterations, scorer, mutated_prompts, original_prompts,
                    files_before, baseline_score, scorer_calls >>

\* the mutation client raises: run_evolution propagates the error
MutationFailed ==
    /\ pc = "mutating"
    /\ pc' = "raised"
    /\ UNCHANGED << detector, max_iterations, scorer, prompts_dir, iteration,
                    current_prompts, mutated_prompts, original_prompts,
                    files_before, baseline_score, best_score, best_prompts,
                    iteration_history, final_results, mutator_calls,
                    scorer_calls >>

\* mutant: the failed evaluation is recorded as a non-improvement with
\* score 0 and reported to the detector before the error propagates
EvaluationFailedRecorded ==
    /\ pc = "evaluating"
    /\ prompts_dir' = IF iteration > 0
                      THEN save_prompts(prompts_dir, original_prompts)
                      ELSE prompts_dir
    /\ iteration_history' =
          Append(iteration_history,
                 [ iteration  |-> iteration,
                   score      |-> 0,
                   best_score |-> best_score,
                   improved   |-> FALSE ])
    /\ detector' = IF detector # None
                   THEN Some(update(Value(detector), iteration, 0, FALSE))
                   ELSE None
    /\ pc' = "raised"
    /\ UNCHANGED << max_iterations, scorer, iteration,
                    current_prompts, mutated_prompts, original_prompts,
                    files_before, baseline_score, best_score, best_prompts,
                    final_results, mutator_calls, scorer_calls >>

\* the simulation or the evaluation raises: the finally clause restores the
\* prompts directory (not for the baseline) and the error propagates
EvaluationFailed ==
    /\ pc = "evaluating"
    /\ prompts_dir' = IF iteration > 0
                      THEN save_prompts(prompts_dir, original_prompts)
                      ELSE prompts_dir
    /\ pc' = "raised"
    /\ UNCHANGED << detector, max_iterations, scorer, iteration,
                    current_prompts, mutated_prompts, original_prompts,
                    files_before, baseline_score, best_score, best_prompts,
                    iteration_history, final_results, mutator_calls,
                    scorer_calls >>

Next ==
    \/ RunEvolution /\ UNCHANGED << caller, recommendation_calls, recommendations >>
         /\ UNCHANGED evaluator_vars /\ UNCHANGED optimizer_vars
         /\ UNCHANGED protocol_vars
    \/ BaselineScored /\ UNCHANGED << caller, recommendation_calls, recommendations >>
         /\ UNCHANGED evaluator_vars /\ UNCHANGED optimizer_vars
         /\ UNCHANGED protocol_vars
    \/ Mutated /\ UNCHANGED << caller, recommendation_calls, recommendations >>
         /\ UNCHANGED evaluator_vars /\ UNCHANGED optimizer_vars
         /\ UNCHANGED protocol_vars
    \/ IterationScored /\ UNCHANGED << caller, recommendation_calls, recommendations >>
         /\ UNCHANGED evaluator_vars /\ UNCHANGED optimizer_vars
         /\ UNCHANGED protocol_vars
    \/ MutationFailed /\ UNCHANGED << caller, recommendation_calls, recommendations >>
         /\ UNCHANGED evaluator_vars /\ UNCHANGED optimizer_vars
         /\ UNCHANGED protocol_vars
    \/ EvaluationFailed /\ UNCHANGED << caller, recommendation_calls, recommendations >>
         /\ UNCHANGED evaluator_vars /\ UNCHANGED optimizer_vars
         /\ UNCHANGED protocol_vars

Spec == Init /\ [][Next]_vars

\* run_evolution when every call it awaits returns or raises
TerminationSpec == Spec /\ WF_vars(Next)

(***************************************************************************)
(* QualityEvaluator (quality_evaluator.py)                                 *)
(*                                                                         *)
(* The evaluator model answers on a 0-5 scale.  Its numbers are counted in *)
(* the same unit of 0.05 as the scores: 3.5 is 70 units, and 3.5 * 20 is   *)
(* 1400 units, that is Points(70).                                         *)
(***************************************************************************)
\* test cases of one simulation
MaxTestCases == 3

\* the "overall_score": 3.5 of the fallback evaluation, in units of 0.05
FallbackScore == 70

\* a JSON value found under "overall_score"
JsonNumber(n) == [ type |-> "number", v |-> n ]
JsonNull      == [ type |-> "null",   v |-> 0 ]
JsonString    == [ type |-> "string", v |-> 0 ]

\* a JSON object with the given "overall_score" (None: the key is absent)
JsonObject(overall) == [ kind |-> "object", overall_score |-> overall ]

\* what the evaluator client may return: a JSON object whose
\* overall_score is absent, null, a string, or a number (0, 3.5, 4, 5, and
\* outside the scale 6 and -1), JSON that is no object, and text that is
\* no JSON
EvaluatorReplies ==
    { JsonObject(None), JsonObject(Some(JsonNull)),
      JsonObject(Some(JsonString)) }
    \cup { JsonObject(Some(JsonNumber(n))) : n \in { 0, 70, 80, 100, 120, -20 } }
    \cup { [ kind |-> "not_object", overall_score |-> None ],
           [ kind |-> "not_json",   overall_score |-> None ] }

\* a test case result: whether the simulation generated a press release
\* or a FAQ for it
TestCaseResults == [ content : BOOLEAN ]

\* the evaluation used when json.loads raises JSONDecodeError
FallbackEvaluation == JsonObject(Some(JsonNumber(FallbackScore)))

\* try: json.loads(response) except json.JSONDecodeError: fallback
ParseReply(reply) ==
    IF reply.kind = "not_json" THEN FallbackEvaluation ELSE reply

\* evaluation.get("overall_score", 0)
GetOverallScore(evaluation) ==
    IF evaluation.overall_score = None
    THEN JsonNumber(0)
    ELSE Value(evaluation.overall_score)

\* _evaluate_test_case raises: .get() on parsed JSON that is no object
\* (AttributeError), or None * 20 (TypeError)
EvaluationRaises(reply) ==
    \/ reply.kind = "not_object"
    \/ GetOverallScore(ParseReply(reply)).type = "null"

\* value * 20: a number on the 0-100 scale, or a string repeated 20 times
Times20(value) ==
    IF value.type = "number" THEN JsonNumber(value.v * 20) ELSE value

\* the evaluation of a test case without content: no evaluator call
EmptyEvaluation ==
    [ overall_score |-> JsonNumber(0), feedback |-> "No content generated" ]

\* the evaluation _evaluate_test_case returns for a reply
evaluate_test_case(reply) ==
    [ overall_score |-> Times20(GetOverallScore(ParseReply(reply))),
      feedback      |-> IF reply.kind = "not_json"
                        THEN "Evaluation parsing failed" ELSE "" ]

\* sum(e.get("overall_score", 0) ...) raises TypeError on a string
AggregateRaises(evaluations) ==
    \E i \in DOMAIN evaluations : evaluations[i].overall_score.type # "number"

\* _calculate_aggregate_scores: the "overall" mean
calculate_aggregate_scores(evaluations) ==
    IF evaluations = << >>
    THEN Mean(0, 1)
    ELSE Mean(SeqSum([ i \in DOMAIN evaluations |->
                         evaluations[i].overall_score.v ]),
              Len(evaluations))

RECURSIVE SeqsUpTo(_, _)
\* the sequences of at most n elements of S
SeqsUpTo(S, n) ==
    IF n = 0 THEN { << >> }
    ELSE SeqsUpTo(S, n - 1)
         \cup { Append(q, x) : q \in { r \in SeqsUpTo(S, n - 1) : Len(r) = n - 1 },
                                x \in S }

\* evaluate_results(simulation_results) has been called
EvaluatorInit ==
    /\ evaluator_pc = "evaluating"
    /\ \E results \in SeqsUpTo(TestCaseResults, MaxTestCases) :
          simulation_results = Some([ test_case_results |-> results ])
    /\ evaluation_results =
          Some([ evaluations |-> << >>, aggregate_scores |-> None ])
    /\ evaluator_replies = << >>
    \* no detector and no tuner in a run of the evaluator alone
    /\ detector = None
    /\ caller = None
    /\ recommendation_calls = 0
    /\ recommendations = None
    /\ pc = "no_tuner"
    /\ max_iterations = 0
    /\ scorer = { }
    /\ prompts_dir = << >>
    /\ iteration = 0
    /\ current_prompts = << >>
    /\ mutated_prompts = << >>
    /\ original_prompts = << >>
    /\ files_before = << >>
    /\ baseline_score = None
    /\ best_score = 0
    /\ best_prompts = << >>
    /\ iteration_history = << >>
    /\ final_results = None
    /\ mutator_calls = 0
    /\ scorer_calls = 0
    \* and no ProgressiveOptimizer
    /\ optimizer_pc = "no_optimizer"
    /\ rounds = 0
    /\ round_num = 0
    /\ previous_best = None
    \* and no file-based LLM client or responder
    /\ client_pc = "no_client"
    /\ global_request_counter = 0
    /\ request_id = 0
    /\ request_dir = << >>
    /\ response_dir = << >>
    /\ responder_pc = "no_responder"
    /\ processed_requests = { }
    /\ new_requests = << >>
    /\ request_data = None
    /\ experiments = 0
    /\ requests_made = 0
    /\ returned = None
    /\ error_log = { }

\* one pass of the loop of evaluate_results: _evaluate_test_case of the
\* next test case, whose evaluator call returns a reply
EvaluateTestCase ==
    /\ evaluator_pc = "evaluating"
    /\ LET tests == Value(simulation_results).test_case_results
           done  == Value(evaluation_results).evaluations
       IN  /\ Len(done) < Len(tests)
           /\ IF ~tests[Len(done) + 1].content
              THEN /\ evaluation_results' =
                         Some([ Value(evaluation_results) EXCEPT
                                  !.evaluations = Append(@, EmptyEvaluation) ])
                   /\ evaluator_replies' = Append(evaluator_replies, None)
                   /\ evaluator_pc' = "evaluating"
              ELSE \E reply \in EvaluatorReplies :
                      /\ evaluator_replies' =
                            Append(evaluator_replies, Some(reply))
                      /\ IF EvaluationRaises(reply)
                         THEN /\ evaluator_pc' = "raised"
                              /\ UNCHANGED evaluation_results
                         ELSE /\ evaluator_pc' = "evaluating"
                              /\ evaluation_results' =
                                    Some([ Value(evaluation_results) EXCEPT
                                       !.evaluations =
                                          Append(@, evaluate_test_case(reply)) ])
    /\ UNCHANGED simulation_results

\* the evaluator client raises instead of returning a reply
EvaluatorClientFailed ==
    /\ evaluator_pc = "evaluating"
    /\ LET tests == Value(simulation_results).test_case_results
           done  == Value(evaluation_results).evaluations
       IN  /\ Len(done) < Len(tests)
           /\ tests[Len(done) + 1].content
    /\ evaluator_pc' = "raised"
    /\ UNCHANGED << simulation_results, evaluation_results,
                    evaluator_replies >>

\* the end of evaluate_results: the aggregate scores of all evaluations
CalculateAggregateScores ==
    /\ evaluator_pc = "evaluating"
    /\ LET tests == Value(simulation_results).test_case_results
           done  == Value(evaluation_results).evaluations
       IN  /\ Len(done) = Len(tests)
           /\ IF AggregateRaises(done)
              THEN /\ evaluator_pc' = "raised"
                   /\ UNCHANGED evaluation_results
              ELSE /\ evaluator_pc' = "returned"
                   /\ evaluation_results' =
                         Some([ Value(evaluation_results) EXCEPT
                                  !.aggregate_scores =
                                     Some(calculate_aggregate_scores(done)) ])
    /\ UNCHANGED << simulation_results, evaluator_replies >>

EvaluatorNext ==
    \/ EvaluateTestCase /\ UNCHANGED detector_vars /\ UNCHANGED tuner_vars
         /\ UNCHANGED optimizer_vars /\ UNCHANGED protocol_vars
    \/ EvaluatorClientFailed /\ UNCHANGED detector_vars /\ UNCHANGED tuner_vars
         /\ UNCHANGED optimizer_vars /\ UNCHANGED protocol_vars
    \/ CalculateAggregateScores /\ UNCHANGED detector_vars /\ UNCHANGED tuner_vars
         /\ UNCHANGED optimizer_vars /\ UNCHANGED protocol_vars

EvaluatorSpec == EvaluatorInit /\ [][EvaluatorNext]_vars

(***************************************************************************)
(* ProgressiveOptimizer (run_progressive_optimization.py)                  *)
(*                                                                         *)
(* Each round is a new process: run_autonomous_experiment.py runs the      *)
(* evolve command, which builds an EvolutionaryTuner with its default      *)
(* arguments and calls run_evolution(iterations_per_round).  The rounds    *)
(* share only the files: the prompts directory is what a round leaves to   *)
(* the next.  round_history and the reports are not modelled.              *)
(***************************************************************************)
\* the rounds of a progressive optimization
MaxRounds == 2

\* iterations_per_round of a progressive optimization
MaxRoundIterations == 2

ProgressiveInit ==
    /\ optimizer_pc = "running"
    /\ rounds \in 1..MaxRounds
    /\ round_num = 1
    /\ previous_best = None
    \* and no file-based LLM client or responder
    /\ client_pc = "no_client"
    /\ global_request_counter = 0
    /\ request_id = 0
    /\ request_dir = << >>
    /\ response_dir = << >>
    /\ responder_pc = "no_responder"
    /\ processed_requests = { }
    /\ new_requests = << >>
    /\ request_data = None
    /\ experiments = 0
    /\ requests_made = 0
    /\ returned = None
    /\ error_log = { }
    \* the tuner of round 1 has been constructed by the evolve command
    /\ detector = TunerDetector(TRUE)
    /\ max_iterations \in 0..MaxRoundIterations
    /\ scorer = TunerScores
    /\ prompts_dir \in InitialPromptDirs
    /\ pc = "constructed"
    /\ iteration = 0
    /\ current_prompts = << >>
    /\ mutated_prompts = << >>
    /\ original_prompts = << >>
    /\ files_before = << >>
    /\ baseline_score = None
    /\ best_score = 0
    /\ best_prompts = << >>
    /\ iteration_history = << >>
    /\ final_results = None
    /\ mutator_calls = 0
    /\ scorer_calls = 0
    /\ caller = None
    /\ recommendation_calls = 0
    /\ recommendations = None
    /\ evaluator_pc = "no_evaluator"
    /\ simulation_results = None
    /\ evaluation_results = None
    /\ evaluator_replies = << >>

\* the round's process exited with code 0 and wrote its results: the loop
\* of run_progressive_optimization goes on to the next round, a new process
\* with a new tuner on the same prompts directory
NextRound ==
    /\ optimizer_pc = "running"
    /\ pc = "done"
    /\ InRange(round_num + 1, rounds)
    /\ round_num' = round_num + 1
    /\ previous_best' = Some(Value(final_results).best_prompts)
    /\ detector' = TunerDetector(TRUE)
    /\ pc' = "constructed"
    /\ iteration' = 0
    /\ current_prompts' = << >>
    /\ mutated_prompts' = << >>
    /\ original_prompts' = << >>
    /\ files_before' = << >>
    /\ baseline_score' = None
    /\ best_score' = 0
    /\ best_prompts' = << >>
    /\ iteration_history' = << >>
    /\ final_results' = None
    /\ mutator_calls' = 0
    /\ scorer_calls' = 0
    /\ UNCHANGED << optimizer_pc, rounds, max_iterations, scorer, prompts_dir,
                    caller, recommendation_calls, recommendations >>
    /\ UNCHANGED evaluator_vars

\* the loop ends, after the last round or on a round whose process failed
\* (run_evolution raised, or a later step of the experiment failed), and
\* the final report is generated
GenerateFinalReport ==
    /\ optimizer_pc = "running"
    /\ pc \in { "done", "raised" }
    /\ optimizer_pc' = "reported"
    /\ UNCHANGED << rounds, round_num, previous_best >>
    /\ UNCHANGED detector_vars
    /\ UNCHANGED tuner_vars
    /\ UNCHANGED evaluator_vars

\* the steps of the tuner of the running round, and those of the optimizer
ProgressiveNext ==
    \/ Next
    \/ NextRound /\ UNCHANGED protocol_vars
    \/ GenerateFinalReport /\ UNCHANGED protocol_vars

ProgressiveSpec == ProgressiveInit /\ [][ProgressiveNext]_vars

(***************************************************************************)
(* File-based LLM protocol (llm_client.py AssistantLLMClient,              *)
(* auto_respond_llm.py AutoResponder)                                      *)
(*                                                                         *)
(* The client process writes request_NNNN.json and polls for               *)
(* response_NNNN.json; the responder process polls the request directory   *)
(* and writes the responses.  Files are written by open(..., 'w') followed *)
(* by json.dump, so another process can see a file that is not yet fully   *)
(* written.  Each experiment (run_autonomous_experiment.py) starts a new   *)
(* responder and a new client process on the same two directories, which   *)
(* no code empties.  The tuner awaits each generate() call, so a client    *)
(* process has one request outstanding at a time.                          *)
(***************************************************************************)
\* generate() calls of one client process
MaxRequests == 2

\* experiments run one after the other in the same working directory
MaxExperiments == 2

\* a file that has been opened for writing and not yet written
PartialFile == [ written |-> FALSE, request_id |-> 0, serial |-> 0 ]

\* request_NNNN.json: request_data; serial stands for its prompt and
\* timestamp, which tell one generate() call from every other
RequestFile(id, serial) ==
    [ written |-> TRUE, request_id |-> id, serial |-> serial ]

\* response_NNNN.json: the response generated from the request data read;
\* serial is the generate() call whose request it was generated from
ResponseFile(data) ==
    [ written |-> TRUE, request_id |-> data.request_id,
      serial |-> data.serial ]

\* the directory after the file of this id has been (over)written
WriteFile(dir, id, file) ==
    [ k \in DOMAIN dir \cup { id } |-> IF k = id THEN file ELSE dir[k] ]

\* sorted(request_dir.glob("request_*.json")): the ids in increasing order
RECURSIVE SortedIds(_)
SortedIds(S) ==
    IF S = { }
    THEN << >>
    ELSE LET least == CHOOSE x \in S : \A y \in S : x <= y
         IN  << least >> \o SortedIds(S \ { least })

ProtocolInit ==
    \* the first experiment has started its responder and its client
    \* process on empty directories
    /\ client_pc = "idle"
    /\ global_request_counter = 0
    /\ request_id = 0
    /\ request_dir = << >>
    /\ response_dir = << >>
    /\ responder_pc = "sleeping"
    /\ processed_requests = { }
    /\ new_requests = << >>
    /\ request_data = None
    /\ experiments = 1
    /\ requests_made = 0
    /\ returned = None
    /\ error_log = { }
    \* no detector, tuner, evaluator or optimizer takes part
    /\ detector = None
    /\ caller = None
    /\ recommendation_calls = 0
    /\ recommendations = None
    /\ pc = "no_tuner"
    /\ max_iterations = 0
    /\ scorer = { }
    /\ prompts_dir = << >>
    /\ iteration = 0
    /\ current_prompts = << >>
    /\ mutated_prompts = << >>
    /\ original_prompts = << >>
    /\ files_before = << >>
    /\ baseline_score = None
    /\ best_score = 0
    /\ best_prompts = << >>
    /\ iteration_history = << >>
    /\ final_results = None
    /\ mutator_calls = 0
    /\ scorer_calls = 0
    /\ evaluator_pc = "no_evaluator"
    /\ simulation_results = None
    /\ evaluation_results = None
    /\ evaluator_replies = << >>
    /\ optimizer_pc = "no_optimizer"
    /\ rounds = 0
    /\ round_num = 0
    /\ previous_best = None

\* generate() up to the opening of the request file: the counter gives the
\* request id and the file of that name is created or truncated
Generate ==
    /\ client_pc = "idle"
    /\ global_request_counter < MaxRequests
    /\ global_request_counter' = global_request_counter + 1
    /\ request_id' = global_request_counter + 1
    /\ requests_made' = requests_made + 1
    /\ request_dir' = WriteFile(request_dir, global_request_counter + 1,
                                PartialFile)
    /\ client_pc' = "writing"
    /\ UNCHANGED << response_dir, responder_pc, processed_requests,
                    new_requests, request_data, experiments, returned >>
    /\ UNCHANGED error_log

\* json.dump has written the request and the file is closed: polling starts
RequestWritten ==
    /\ client_pc = "writing"
    /\ request_dir' = WriteFile(request_dir, request_id,
                                RequestFile(request_id, requests_made))
    /\ client_pc' = "polling"
    /\ UNCHANGED << global_request_counter, request_id, response_dir,
                    responder_pc, processed_requests, new_requests,
                    request_data, experiments, requests_made, returned >>
    /\ UNCHANGED error_log

\* the response file exists and holds a response: generate() returns its
\* content
ResponseReturned ==
    /\ client_pc = "polling"
    /\ request_id \in DOMAIN response_dir
    /\ response_dir[request_id].written
    /\ returned' = Some([ call    |-> requests_made,
                           answers |-> response_dir[request_id].serial ])
    /\ client_pc' = "idle"
    /\ request_id' = 0
    /\ UNCHANGED << global_request_counter, request_dir, response_dir,
                    responder_pc, processed_requests, new_requests,
                    request_data, experiments, requests_made >>
    /\ UNCHANGED error_log

\* the response file exists but is not written yet: json.load raises and
\* the error leaves generate()
ResponseUnreadable ==
    /\ client_pc = "polling"
    /\ request_id \in DOMAIN response_dir
    /\ ~response_dir[request_id].written
    /\ client_pc' = "failed"
    /\ request_id' = 0
    /\ UNCHANGED << global_request_counter, request_dir, response_dir,
                    responder_pc, processed_requests, new_requests,
                    request_data, experiments, requests_made, returned >>
    /\ UNCHANGED error_log

\* no response file within the timeout: generate() raises TimeoutError
TimedOut ==
    /\ client_pc = "polling"
    /\ request_id \notin DOMAIN response_dir
    /\ client_pc' = "failed"
    /\ request_id' = 0
    /\ UNCHANGED << global_request_counter, request_dir, response_dir,
                    responder_pc, processed_requests, new_requests,
                    request_data, experiments, requests_made, returned >>
    /\ UNCHANGED error_log

\* process_requests: the request files not yet processed, sorted
FindNewRequests ==
    /\ responder_pc = "sleeping"
    /\ new_requests' = SortedIds(DOMAIN request_dir \ processed_requests)
    /\ responder_pc' = "processing"
    /\ UNCHANGED << client_pc, global_request_counter, request_id,
                    request_dir, response_dir, processed_requests,
                    request_data, experiments, requests_made, returned >>
    /\ UNCHANGED error_log

\* the next new request is read and its response generated; the response
\* file is opened for writing
ReadRequest ==
    /\ responder_pc = "processing"
    /\ new_requests # << >>
    /\ request_dir[Head(new_requests)].written
    /\ request_data' = Some(request_dir[Head(new_requests)])
    /\ response_dir' = WriteFile(response_dir,
                                 request_dir[Head(new_requests)].request_id,
                                 PartialFile)
    /\ responder_pc' = "writing"
    /\ UNCHANGED << client_pc, global_request_counter, request_id,
                    request_dir, processed_requests, new_requests,
                    experiments, requests_made, returned >>
    /\ UNCHANGED error_log

\* mutant: a request whose processing raised is marked as processed
ProcessingRaisedMarked ==
    /\ responder_pc = "processing"
    /\ new_requests # << >>
    /\ ~request_dir[Head(new_requests)].written
    /\ new_requests' = Tail(new_requests)
    /\ processed_requests' = processed_requests \cup { Head(new_requests) }
    /\ UNCHANGED << client_pc, global_request_counter, request_id,
                    request_dir, response_dir, responder_pc,
                    request_data, experiments, requests_made, returned >>
    /\ error_log' = error_log \cup { Head(new_requests) }

\* the next new request is not written yet: json.load raises, the handler
\* prints the error and the loop goes on without marking the request
ProcessingRaised ==
    /\ responder_pc = "processing"
    /\ new_requests # << >>
    /\ ~request_dir[Head(new_requests)].written
    /\ new_requests' = Tail(new_requests)
    /\ UNCHANGED << client_pc, global_request_counter, request_id,
                    request_dir, response_dir, responder_pc,
                    processed_requests, request_data, experiments,
                    requests_made, returned >>
    /\ error_log' = error_log \cup { Head(new_requests) }

\* json.dump has written the response: the request is marked as processed
ResponseWritten ==
    /\ responder_pc = "writing"
    /\ response_dir' = WriteFile(response_dir,
                                 Value(request_data).request_id,
                                 ResponseFile(Value(request_data)))
    /\ processed_requests' = processed_requests \cup { Head(new_requests) }
    /\ new_requests' = Tail(new_requests)
    /\ request_data' = None
    /\ responder_pc' = "processing"
    /\ UNCHANGED << client_pc, global_request_counter, request_id,
                    request_dir, experiments, requests_made, returned >>
    /\ UNCHANGED error_log

\* every new request has been handled: time.sleep(sleep_interval)
Sleep ==
    /\ responder_pc = "processing"
    /\ new_requests = << >>
    /\ responder_pc' = "sleeping"
    /\ UNCHANGED << client_pc, global_request_counter, request_id,
                    request_dir, response_dir, processed_requests,
                    new_requests, request_data, experiments, requests_made,
                    returned >>
    /\ UNCHANGED error_log

\* the experiment ends and the next one starts: the responder is
\* terminated wherever it stands and a new AutoResponder is started, and a
\* new client process starts with the counter at 0; the directories stay
NextExperiment ==
    /\ client_pc \in { "idle", "failed" }
    /\ experiments < MaxExperiments
    /\ experiments' = experiments + 1
    /\ client_pc' = "idle"
    /\ global_request_counter' = 0
    /\ request_id' = 0
    /\ responder_pc' = "sleeping"
    /\ processed_requests' = { }
    /\ new_requests' = << >>
    /\ request_data' = None
    /\ UNCHANGED << request_dir, response_dir, requests_made, returned >>
    /\ error_log' = { }

\* the steps of the responder process
ResponderNext ==
    \/ FindNewRequests
    \/ ReadRequest
    \/ ProcessingRaised
    \/ ResponseWritten
    \/ Sleep

ProtocolNext ==
    \/ Generate /\ UNCHANGED << detector_vars, tuner_vars, evaluator_vars,
                               optimizer_vars >>
    \/ RequestWritten /\ UNCHANGED << detector_vars, tuner_vars,
                                     evaluator_vars, optimizer_vars >>
    \/ ResponseReturned /\ UNCHANGED << detector_vars, tuner_vars,
                                       evaluator_vars, optimizer_vars >>
    \/ ResponseUnreadable /\ UNCHANGED << detector_vars, tuner_vars,
                                         evaluator_vars, optimizer_vars >>
    \/ TimedOut /\ UNCHANGED << detector_vars, tuner_vars, evaluator_vars,
                               optimizer_vars >>
    \/ FindNewRequests /\ UNCHANGED << detector_vars, tuner_vars, evaluator_vars,
              optimizer_vars >>
    \/ ReadRequest /\ UNCHANGED << detector_vars, tuner_vars, evaluator_vars,
              optimizer_vars >>
    \/ ProcessingRaised /\ UNCHANGED << detector_vars, tuner_vars, evaluator_vars,
              optimizer_vars >>
    \/ ResponseWritten /\ UNCHANGED << detector_vars, tuner_vars, evaluator_vars,
              optimizer_vars >>
    \/ Sleep /\ UNCHANGED << detector_vars, tuner_vars, evaluator_vars,
              optimizer_vars >>
    \/ NextExperiment /\ UNCHANGED << detector_vars, tuner_vars,
                                     evaluator_vars, optimizer_vars >>

ProtocolSpec == ProtocolInit /\ [][ProtocolNext]_vars

\* the responder keeps polling and a file being written gets written
ProtocolLiveSpec ==
    /\ ProtocolSpec
    /\ WF_protocol_vars(ResponderNext)
    /\ WF_protocol_vars(RequestWritten)

(***************************************************************************)
(* Properties                                                              *)
(***************************************************************************)
Last(seq) == seq[Len(seq)]

\* a step of the stand-alone detector that is an update() call
UpdateStep ==
    Len(Value(detector').iteration_history)
        = Len(Value(detector).iteration_history) + 1

\* the score passed to the update() call of an UpdateStep
UpdateScore == Last(Value(detector').iteration_history).score

\* a step of run_evolution that completes an iteration
IterationStep == Len(iteration_history') = Len(iteration_history) + 1

\* the score of the iteration an IterationStep completes
IterationScore == Last(iteration_history').score

\* the <<iteration, score>> pairs a detector has been given, in order
Reported(d) ==
    [ i \in DOMAIN d.iteration_history |->
        << d.iteration_history[i].iteration, d.iteration_history[i].score >> ]

\* C1: every result run_evolution returns has final_score >= baseline_score
\* and improvement = final_score - baseline_score >= 0.
C1_FinalScoreNotBelowBaseline ==
    final_results # None =>
        LET r == Value(final_results)
        IN  /\ r.baseline_score = Value(baseline_score)
            /\ r.final_score = best_score
            /\ r.final_score >= r.baseline_score
            /\ r.improvement = r.final_score - r.baseline_score
            /\ r.improvement >= 0

\* a returned run in which one iteration scored below the baseline and a
\* later one above it
C1_Witness ==
    /\ final_results # None
    /\ \E i, j \in DOMAIN iteration_history :
          /\ i < j
          /\ iteration_history[i].score < Value(baseline_score)
          /\ iteration_history[j].score > Value(baseline_score)

\* C2: every update() call leaves the detector's best_score at least as
\* high as it was before the call.
C2_BestScoreNeverDecreases ==
    [][ UpdateStep =>
          Value(detector').best_score >= Value(detector).best_score ]_vars

\* an update() with a score below the best has been made
C2_Witness ==
    /\ pc = "no_tuner"
    /\ recommendation_calls = 0
    /\ Value(detector).iteration_history # << >>
    /\ Last(Value(detector).iteration_history).score
          < Value(detector).best_score

\* the improvement of score over best, as a percentage, is at least min; on
\* a best of 0 a positive score is a 100% improvement and any other score
\* is no improvement
ImprovementMeets(best, score, min) ==
    IF best > 0
    THEN (score - best) * 100 * min.den >= min.num * best
    ELSE score > 0 /\ 100 * min.den >= min.num

\* C3 as stated: every update() call sets no_improvement_count to 0 exactly
\* when the improvement of the score over the previous best meets or
\* exceeds min_improvement_percent, and otherwise adds 1 to it.
C3_ResetExactlyWhenImprovementMeets ==
    [][ UpdateStep =>
          LET d == Value(detector)
          IN  IF ImprovementMeets(d.best_score, UpdateScore,
                                  d.config.min_improvement_percent)
              THEN Value(detector').no_improvement_count = 0
              ELSE Value(detector').no_improvement_count
                      = d.no_improvement_count + 1 ]_vars

\* C3 amended: every update() call sets no_improvement_count to 0 exactly
\* when the score is strictly greater than the previous best and its
\* improvement meets or exceeds min_improvement_percent, and otherwise adds
\* exactly 1 to it.
C3_ResetExactlyWhenHigherAndMeets ==
    [][ UpdateStep =>
          LET d == Value(detector)
          IN  IF /\ UpdateScore > d.best_score
                 /\ ImprovementMeets(d.best_score, UpdateScore,
                                     d.config.min_improvement_percent)
              THEN Value(detector').no_improvement_count = 0
              ELSE /\ Value(detector').no_improvement_count
                         = d.no_improvement_count + 1
                   /\ Value(detector').no_improvement_count # 0 ]_vars

\* with min_improvement_percent = 0, an update() with a score equal to the
\* best has been made and has incremented the counter
C3_Witness ==
    /\ pc = "no_tuner"
    /\ recommendation_calls = 0
    /\ Value(detector).config.min_improvement_percent = Percent(0, 1)
    /\ Value(detector).iteration_history # << >>
    /\ Value(detector).best_score > 0
    /\ Last(Value(detector).iteration_history).score
          = Value(detector).best_score
    /\ Value(detector).no_improvement_count > 0

\* C4: with min_improvement_percent = 0.1 and best_score = 100, an update
\* with score 100.05 adds 1 to no_improvement_count and leaves best_score
\* at 100, an update with score 100.2 resets the counter to 0 and makes
\* 100.2 the best_score; and whatever the configuration, a score above the
\* best whose gain is below min_improvement_percent adds 1 to the counter
\* and leaves best_score alone.
C4_InsignificantGainDoesNotReset ==
    [][ UpdateStep =>
          LET d  == Value(detector)
              dd == Value(detector')
          IN  /\ ( /\ d.config.min_improvement_percent = Percent(1, 10)
                   /\ d.best_score = Points(100)
                   /\ UpdateScore = Points(100) + 1 )
                 => /\ dd.no_improvement_count = d.no_improvement_count + 1
                    /\ dd.best_score = Points(100)
              /\ ( /\ d.config.min_improvement_percent = Percent(1, 10)
                   /\ d.best_score = Points(100)
                   /\ UpdateScore = Points(100) + 4 )
                 => /\ dd.no_improvement_count = 0
                    /\ dd.best_score = Points(100) + 4
              /\ ( /\ UpdateScore > d.best_score
                   /\ ~ImprovementMeets(d.best_score, UpdateScore,
                                        d.config.min_improvement_percent) )
                 => /\ dd.no_improvement_count = d.no_improvement_count + 1
                    /\ dd.best_score = d.best_score ]_vars

\* scores 100, 100.05, 100.2 have been reported in this order with
\* min_improvement_percent = 0.1: the second did not reset, the third did
C4_Witness ==
    /\ pc = "no_tuner"
    /\ Value(detector).config.min_improvement_percent = Percent(1, 10)
    /\ [ i \in DOMAIN Value(detector).iteration_history |->
           Value(detector).iteration_history[i].score ]
          = << Points(100), Points(100) + 1, Points(100) + 4 >>
    /\ Value(detector).best_score = Points(100) + 4
    /\ Value(detector).no_improvement_count = 0

\* the sequence of C5: a best of 10 reported as iteration 0, then
\* iteration 1 scoring 20 and iterations 2 to 6 scoring 20 again
C5_Sequence ==
    << << 0, Points(10) >>, << 1, Points(20) >>, << 2, Points(20) >>,
       << 3, Points(20) >>, << 4, Points(20) >>, << 5, Points(20) >>,
       << 6, Points(20) >> >>

C6_EarlyStopDisabledNeverStops ==
    pc = "no_tuner" =>
        LET d == Value(detector)
        IN  /\ ~d.config.enable_early_stop
                => /\ should_stop(d) = FALSE
                   /\ get_status(d).should_stop = FALSE
            /\ d.config.enable_early_stop
                => /\ should_stop(d) = d.converged
                   /\ get_status(d).should_stop = d.converged

\* early stop is disabled and the detector has converged, after as many
\* consecutive non-improving updates as the model allows
C6_Witness ==
    /\ pc = "no_tuner"
    /\ ~Value(detector).config.enable_early_stop
    /\ Value(detector).converged
    /\ Value(detector).config.no_improvement_threshold = 5
    /\ Value(detector).no_improvement_count = 5 + ExtraUpdates

C8_Run ==
    /\ pc # "no_tuner"
    /\ detector # None
    /\ max_iterations = DefaultMaxIterations
    /\ scorer = { Points(70) }
    /\ baseline_score = Some(Points(65))

\* C8: with baseline score 65, max_iterations = 20 and every iteration
\* scoring 70, the loop stops after iteration 6: the run never records a
\* seventh iteration, it goes on while fewer than 6 are recorded, and it
\* returns with exactly 6 records, final_score = 70 and improvement = 5.
C8_StopsAfterSixIterations ==
    C8_Run =>
        /\ Len(iteration_history) <= 6
        /\ iteration <= 6
        /\ mutator_calls <= 6
        /\ pc = "done" <=> Len(iteration_history) = 6
        /\ pc = "done" =>
              /\ final_results # None
              /\ Len(Value(final_results).iteration_history) = 6
              /\ Value(final_results).final_score = Points(70)
              /\ Value(final_results).improvement = Points(5)

\* the run of C8 has returned
C8_Witness == C8_Run /\ pc = "done" /\ final_results # None

\* C9 as stated: an iteration adopts the mutated prompts if and only if
\* its score is strictly greater than the best score; on adoption the best
\* score, the best prompts, the current prompts and the prompt files all
\* become the mutated prompts and their score; on discard the best score,
\* the best prompts, the current prompts and the prompt files are what
\* they were before the iteration.
C9_KeepOrDiscard ==
    [][ IterationStep =>
          IF IterationScore > best_score
          THEN /\ Last(iteration_history').improved
               /\ best_score' = IterationScore
               /\ best_prompts' = mutated_prompts
               /\ current_prompts' = mutated_prompts
               /\ prompts_dir' = mutated_prompts
          ELSE /\ ~Last(iteration_history').improved
               /\ best_score' = best_score
               /\ best_prompts' = best_prompts
               /\ current_prompts' = current_prompts
               /\ prompts_dir' = files_before ]_vars

\* the detector of the tuner reports should_stop()
StopSignalled == detector # None /\ should_stop(Value(detector))

\* C10: the step whose update makes should_stop() true ends the run with
\* the iteration just recorded as the last one, and from then on no
\* mutation, no evaluation and no iteration record is added.
C10_EarlyStopEndsTheLoop ==
    [][ /\ (pc # "no_tuner" /\ StopSignalled') =>
              /\ pc' = "done"
              /\ final_results' # None
              /\ Last(iteration_history').iteration = Len(iteration_history')
              /\ Value(detector').convergence_iteration
                    = Some(Len(iteration_history'))
        /\ (pc # "no_tuner" /\ StopSignalled) =>
              /\ iteration_history' = iteration_history
              /\ mutator_calls' = mutator_calls
              /\ scorer_calls' = scorer_calls ]_vars

\* a run has stopped early with budget left
C10_Witness ==
    /\ pc = "done"
    /\ StopSignalled
    /\ Len(iteration_history) < max_iterations
    /\ max_iterations <= MaxIterations

\* C11: once converged is true, every later update() leaves it true and
\* leaves convergence_iteration as it is, also an update whose score resets
\* no_improvement_count to 0; and the update that sets converged is one
\* that finds the detector not converged and brings the counter to the
\* threshold.
C11_ConvergedIsTerminal ==
    [][ UpdateStep =>
          LET d  == Value(detector)
              dd == Value(detector')
          IN  /\ d.converged =>
                    /\ dd.converged
                    /\ dd.convergence_iteration = d.convergence_iteration
              /\ (~d.converged /\ dd.converged) =>
                    /\ dd.no_improvement_count
                          >= d.config.no_improvement_threshold
                    /\ dd.convergence_iteration
                          = Some(Last(dd.iteration_history).iteration) ]_vars

\* a converged detector has been given a better score that reset its
\* counter, and then a score that did not improve
C11_Witness ==
    /\ pc = "no_tuner"
    /\ Value(detector).converged
    /\ Value(detector).config.no_improvement_threshold = 2
    /\ Value(detector).no_improvement_count = 1
    /\ Value(detector).convergence_iteration # None
    /\ Value(Value(detector).convergence_iteration)
          < Last(Value(detector).iteration_history).iteration - 1

\* a step in which the mutation or the evaluation raises
FailureStep == pc # "raised" /\ pc' = "raised"

\* C12: a failure of the mutation or of the evaluation leaves
\* run_evolution with an error and without a result: the step adds no
\* iteration record, does not update the detector and leaves best_score
\* and best_prompts as they were, and after it no mutation, no evaluation
\* and no record follows.
C12_FailurePropagates ==
    [][ /\ FailureStep =>
              /\ iteration_history' = iteration_history
              /\ detector' = detector
              /\ best_score' = best_score
              /\ best_prompts' = best_prompts
              /\ mutator_calls' = mutator_calls
              /\ scorer_calls' = scorer_calls
              /\ final_results' = None
        /\ pc = "raised" =>
              /\ pc' = "raised"
              /\ iteration_history' = iteration_history
              /\ detector' = detector
              /\ mutator_calls' = mutator_calls
              /\ scorer_calls' = scorer_calls ]_vars

\* the evaluation of iteration 3 has failed after iteration 1 improved on
\* the baseline and iteration 2 did not
C12_Witness ==
    /\ pc = "raised"
    /\ iteration = 3
    /\ scorer_calls = mutator_calls + 1
    /\ detector # None
    /\ Len(iteration_history) = 2
    /\ iteration_history[1].improved
    /\ ~iteration_history[2].improved
    /\ Value(detector).no_improvement_count = 1

\* run_evolution has been left by an error of the mutation of the
\* iteration it had reached
MutatorFailed == pc = "raised" /\ mutator_calls = scorer_calls

\* C13: when the mutation of iteration k fails, the caller of
\* run_evolution obtains a result that holds the baseline score, the best
\* score, the best prompts and the records of iterations 1 to k-1.
C13_MutatorFailureReportsTruncatedResult ==
    MutatorFailed =>
        /\ final_results # None
        /\ Value(final_results).baseline_score = Value(baseline_score)
        /\ Value(final_results).final_score = best_score
        /\ Value(final_results).best_prompts = best_prompts
        /\ Value(final_results).iteration_history = iteration_history
        /\ Len(iteration_history) = iteration - 1

\* C15: no detector whose no_improvement_threshold is zero or negative is
\* ever given an update: such a configuration is rejected when the
\* configuration or the detector is constructed.
C15_NonPositiveThresholdRejected ==
    (pc = "no_tuner" /\ detector # None) =>
        \/ Value(detector).config.no_improvement_threshold > 0
        \/ Value(detector).iteration_history = << >>

\* the points at which an observer can look at a run whose baseline is
\* known: the suspension points of the mutation and of the evaluation, and
\* the end of the run
Observable ==
    /\ pc \in { "mutating", "evaluating", "done", "raised" }
    /\ baseline_score # None

\* C16: at every observable point of a run the prompts held in the prompt
\* files are the best prompts, those whose score is the best score.
C16_PersistedPromptsAreTheBest ==
    Observable => prompts_dir = best_prompts

\* C17: when run_evolution returns, load_prompts() of the prompt files
\* gives the best_prompts of the returned result.
C17_LoadedPromptsAreBestPrompts ==
    final_results # None =>
        load_prompts(prompts_dir) = Value(final_results).best_prompts

\* the greatest of the baseline score and the scores of records 1 to i
BestUpTo(baseline, history, i) ==
    LET scores == { baseline } \cup { history[k].score : k \in 1..i }
    IN  CHOOSE m \in scores : \A x \in scores : x <= m

\* C18: in the iteration_history of a returned result, the best_score of
\* each record is the greatest of the baseline score and the scores of all
\* records up to and including it, so the best_score values never
\* decrease, and the last one is the final_score.
C18_RecordedBestIsRunningMaximum ==
    final_results # None =>
        LET r == Value(final_results)
            h == r.iteration_history
        IN  /\ \A i \in DOMAIN h :
                  h[i].best_score = BestUpTo(r.baseline_score, h, i)
            /\ \A i, j \in DOMAIN h :
                  i <= j => h[i].best_score <= h[j].best_score
            /\ h # << >> => Last(h).best_score = r.final_score
            /\ h = << >> => r.final_score = r.baseline_score

\* a returned run in which a kept mutation was followed by a discarded
\* one with a lower score and then by another kept one
C18_Witness ==
    /\ final_results # None
    /\ Len(Value(final_results).iteration_history) >= 3
    /\ LET h == Value(final_results).iteration_history
       IN  /\ h[1].improved
           /\ h[2].score < h[1].score
           /\ ~h[2].improved
           /\ h[3].improved
           /\ h[3].best_score > h[2].best_score

\* C19: iteration_history only grows, one record at a time and one for
\* each iteration whose evaluation returns; its records are numbered
\* 1, 2, ..., n in order (the baseline is not recorded); n is at most
\* max_iterations, and n = max_iterations in every returned run whose
\* detector did not signal a stop.
C19_HistoryNumberedAndAppendOnly ==
    /\ [] ( /\ \A i \in DOMAIN iteration_history :
                  iteration_history[i].iteration = i
            /\ Len(iteration_history) <= max_iterations
            /\ (pc = "done" /\ ~StopSignalled) =>
                  /\ Len(iteration_history) = max_iterations
                  /\ Value(final_results).iteration_history
                        = iteration_history )
    /\ [][ /\ \/ iteration_history' = iteration_history
              \/ /\ Len(iteration_history') = Len(iteration_history) + 1
                 /\ SubSeq(iteration_history', 1, Len(iteration_history))
                       = iteration_history
           /\ (pc = "evaluating" /\ iteration >= 1 /\ pc' # "raised")
                 <=> IterationStep
           /\ IterationStep => Last(iteration_history').iteration = iteration
         ]_vars

\* a run with max_iterations = 3 and a detector that did not signal a stop
\* has returned with three records
C19_Witness ==
    /\ pc = "done"
    /\ detector # None
    /\ ~StopSignalled
    /\ max_iterations = 3
    /\ Len(Value(final_results).iteration_history) = 3

\* C14: no number stands in for a score the evaluator could not produce:
\* when the reply for a test case cannot be parsed, evaluate_results does
\* not return an aggregate, so no returned aggregate holds an evaluation
\* made up for an unparseable reply.
C14_NoSubstituteScore ==
    evaluator_pc = "returned" =>
        \A i \in DOMAIN evaluator_replies :
            \/ evaluator_replies[i] = None
            \/ Value(evaluator_replies[i]).kind # "not_json"

\* C20: every aggregate score evaluate_results returns lies between 0 and
\* 100, whatever the replies of the evaluator model.
C20_AggregateWithinScale ==
    evaluator_pc = "returned" =>
        LET overall == Value(Value(evaluation_results).aggregate_scores)
        IN  /\ 0 <= overall.sum
            /\ overall.sum <= Points(100) * overall.count

\* the updates the detector of the tuner has been given
DetectorUpdates ==
    IF detector = None THEN Len(iteration_history)
    ELSE Len(Value(detector).iteration_history)

\* C21: the loop is sequential.  While the mutation of iteration k is
\* outstanding, k mutations and k evaluations (the baseline and those of
\* iterations 1 to k-1) have been started, and iterations 1 to k-1 are
\* recorded and reported to the detector; while the evaluation of
\* iteration k is outstanding, k mutations and k+1 evaluations have been
\* started and the same k-1 iterations are complete; so the mutation of
\* an iteration has returned before its evaluation starts, an iteration
\* is complete before the next one starts a call, and never more than one
\* call is outstanding.
C21_StrictlySequential ==
    /\ pc = "mutating" =>
          /\ iteration >= 1
          /\ mutator_calls = iteration
          /\ scorer_calls = iteration
          /\ Len(iteration_history) = iteration - 1
          /\ DetectorUpdates = iteration - 1
    /\ pc = "evaluating" =>
          /\ mutator_calls = iteration
          /\ scorer_calls = iteration + 1
          /\ Len(iteration_history) = Max(iteration - 1, 0)
          /\ DetectorUpdates = Max(iteration - 1, 0)
    /\ pc = "done" =>
          /\ mutator_calls = Len(iteration_history)
          /\ scorer_calls = Len(iteration_history) + 1
          /\ DetectorUpdates = Len(iteration_history)

\* the evaluation of iteration 3 is outstanding
C21_Witness ==
    /\ pc = "evaluating"
    /\ iteration = 3
    /\ detector # None
    /\ Len(iteration_history) = 2
    /\ mutator_calls = 3
    /\ scorer_calls = 4

\* the best score after an update with the given score, told from the
\* scores alone: a score replaces the best when it is greater and its
\* improvement meets min
NextBest(before, score, min) ==
    IF score > before /\ ImprovementMeets(before, score, min)
    THEN score ELSE before

RECURSIVE BestAfter(_, _, _)
\* the best score of a detector after the first i updates of history h
BestAfter(h, i, min) ==
    IF i = 0 THEN 0
    ELSE NextBest(BestAfter(h, i - 1, min), h[i].score, min)

\* update i of history h improved on the best before it
Improving(h, i, min) == BestAfter(h, i, min) # BestAfter(h, i - 1, min)

\* the index in history h of the update numbered n (0 if there is none)
IndexOf(h, n) ==
    IF \E i \in DOMAIN h : h[i].iteration = n
    THEN CHOOSE i \in DOMAIN h : h[i].iteration = n
    ELSE 0

\* C22: after every update (get_recommendations() changes nothing of the
\* detector), in a converged detector with a positive threshold T,
\* convergence_iteration is the number c of a recorded update; the updates
\* numbered c - T + 1 to c are all recorded and none of them improved; the
\* update numbered c - T, if there is one, improved; and no T consecutive
\* updates before c were all non-improving, so c is the update on which
\* the counter reached the threshold.
C22_ConvergenceIterationEndsTheStreak ==
    (pc = "no_tuner" /\ detector # None /\ recommendation_calls = 0
       /\ Value(detector).converged
       /\ Value(detector).config.no_improvement_threshold >= 1) =>
        LET d   == Value(detector)
            h   == d.iteration_history
            T   == d.config.no_improvement_threshold
            min == d.config.min_improvement_percent
            c   == Value(d.convergence_iteration)
            k   == IndexOf(h, c)
        IN  /\ d.convergence_iteration # None
            /\ k >= T
            /\ \A n \in (c - T + 1)..c :
                  /\ IndexOf(h, n) = k - (c - n)
                  /\ ~Improving(h, IndexOf(h, n), min)
            /\ k > T => Improving(h, k - T, min)
            /\ \A j \in T..(k - 1) :
                  \E i \in (j - T + 1)..j : Improving(h, i, min)

\* a detector of threshold 2 has converged on its fourth update, after an
\* improvement on the second
C22_Witness ==
    /\ pc = "no_tuner"
    /\ detector # None
    /\ Value(detector).converged
    /\ Value(detector).config.no_improvement_threshold = 2
    /\ Len(Value(detector).iteration_history) = 4
    /\ Value(detector).convergence_iteration
          = Some(Value(detector).iteration_history[4].iteration)
    /\ Value(detector).iteration_history[2].score
          > Value(detector).iteration_history[1].score
    /\ Value(detector).iteration_history[1].score > 0

\* a step of the stand-alone detector whose update() declares convergence
ConvergingStep ==
    /\ UpdateStep
    /\ ~Value(detector).converged
    /\ Value(detector').converged

\* the iteration number passed to the update() call of an UpdateStep
UpdateIteration == Last(Value(detector').iteration_history).iteration

\* after an UpdateStep: the number of the first update of the streak of
\* non-improving updates that the counter counts (numbers are consecutive)
StreakStart == UpdateIteration - Value(detector').no_improvement_count + 1

\* C23 as stated: the convergence iteration recorded when the detector
\* converges is the first iteration of the no-improvement streak, the
\* first non-improving iteration after the last significant improvement.
C23_ConvergenceIterationStartsTheStreak ==
    [][ (ConvergingStep /\ Value(detector').no_improvement_count >= 1) =>
          Value(detector').convergence_iteration = Some(StreakStart) ]_vars

\* C23 amended: the convergence iteration recorded when the detector
\* converges is the iteration of the update on which the streak reached
\* the threshold, the last iteration of the streak: with a threshold
\* T >= 1 it is the first iteration of the streak plus T - 1, and it is
\* later than the first iteration of the streak whenever the streak is
\* longer than one update.
C23_ConvergenceIterationIsWhereThresholdIsReached ==
    [][ ConvergingStep =>
          LET dd == Value(detector')
              T  == dd.config.no_improvement_threshold
          IN  /\ dd.convergence_iteration = Some(UpdateIteration)
              /\ T >= 1 =>
                    /\ dd.no_improvement_count = T
                    /\ Value(dd.convergence_iteration) = StreakStart + T - 1
              /\ dd.no_improvement_count >= 2 =>
                    Value(dd.convergence_iteration) > StreakStart ]_vars

\* a detector of threshold 5 has just converged, five updates after an
\* improvement
C23_Witness ==
    /\ pc = "no_tuner"
    /\ detector # None
    /\ recommendation_calls = 0
    /\ Value(detector).converged
    /\ Value(detector).config.no_improvement_threshold = 5
    /\ Value(detector).no_improvement_count = 5
    /\ Len(Value(detector).iteration_history) = 6
    /\ Value(detector).best_score > 0
    /\ Value(detector).convergence_iteration
          = Some(Last(Value(detector).iteration_history).iteration)

\* the recorded iterations numbered after the convergence iteration
IterationsAfterConvergence(d) ==
    Cardinality({ i \in DOMAIN d.iteration_history :
                    d.iteration_history[i].iteration
                        > Value(d.convergence_iteration) })

\* C24: in every state of the detector, the wasted_iterations of its
\* status is the number of recorded iterations numbered after
\* convergence_iteration, and 0 when the detector has not converged,
\* whatever the numbering the caller uses.
C24_WastedIsIterationsAfterConvergence ==
    (pc = "no_tuner" /\ detector # None
       /\ Value(detector).config.no_improvement_threshold >= 1) =>
        LET d == Value(detector)
        IN  get_status(d).wasted_iterations
               = IF d.converged THEN IterationsAfterConvergence(d) ELSE 0

\* C25: in every state of the detector, plateau_variance is the greatest
\* minus the least, and plateau_avg the mean, of the scores of the
\* recorded iterations numbered after convergence_iteration; both are 0
\* when the detector has not converged or no such iteration is recorded.
C25_PlateauStatsOfIterationsAfterConvergence ==
    (pc = "no_tuner" /\ detector # None
       /\ Value(detector).config.no_improvement_threshold >= 1) =>
        LET d      == Value(detector)
            status == get_status(d)
        IN  IF d.converged /\ IterationsAfterConvergence(d) > 0
            THEN LET scores == PlateauScores(d)
                 IN  /\ status.plateau_variance
                           = SeqMax(scores) - SeqMin(scores)
                     /\ status.plateau_avg.sum * Len(scores)
                           = SeqSum(scores) * status.plateau_avg.count
            ELSE /\ status.plateau_variance = 0
                 /\ status.plateau_avg.sum = 0

\* the recorded updates that are genuine improvements: flagged as improved
\* by the caller, with a positive score above the best before them
GenuineImprovements(d) ==
    LET h   == d.iteration_history
        min == d.config.min_improvement_percent
    IN  { i \in DOMAIN h : /\ h[i].improved
                           /\ h[i].score > 0
                           /\ h[i].score > BestAfter(h, i - 1, min) }

\* the score gain of update i: its score minus the best before it
Gain(d, i) ==
    d.iteration_history[i].score
       - BestAfter(d.iteration_history, i - 1, d.config.min_improvement_percent)

\* C26: the list get_recommendations() returns holds the
\* diminishing-returns recommendation exactly when the detector has seen
\* at least two genuine improvements and the gain of the most recent one
\* is less than half the gain of the first one.
C26_DiminishingReturnsExactlyWhenGainHalved ==
    (pc = "no_tuner" /\ recommendations # None
       /\ Value(detector).config.no_improvement_threshold >= 1) =>
        LET d == Value(detector)
            G == GenuineImprovements(d)
            first == CHOOSE i \in G : \A j \in G : i <= j
            last  == CHOOSE i \in G : \A j \in G : j <= i
        IN  (\E k \in DOMAIN Value(recommendations) :
                Value(recommendations)[k].kind = "diminishing_returns")
            <=> ( /\ Cardinality(G) >= 2
                  /\ 2 * Gain(d, last) < Gain(d, first) )

\* the number of the last iteration whose mutation was kept (0: none)
LastKept ==
    LET kept == { i \in DOMAIN iteration_history :
                    iteration_history[i].improved }
    IN  IF kept = { } THEN 0 ELSE CHOOSE i \in kept : \A j \in kept : j <= i

\* C27: whenever a mutation is requested, the prompts handed to the
\* mutator are the prompts of the last kept mutation, or the initial
\* prompts if no mutation has been kept, never those of a discarded
\* mutation, and they are equal to best_prompts.
C27_MutatesFromLastKept ==
    pc = "mutating" =>
        /\ current_prompts = best_prompts
        /\ \A name \in DOMAIN current_prompts :
              IF LastKept = 0
              THEN current_prompts[name].origin \in { "file", "default" }
              ELSE /\ current_prompts[name].origin = "mutation"
                   /\ current_prompts[name].n = LastKept

\* the mutation of iteration 4 is requested after iteration 1 was kept and
\* iterations 2 and 3 were discarded
C27_Witness ==
    /\ pc = "mutating"
    /\ iteration = 4
    /\ iteration_history[1].improved
    /\ ~iteration_history[2].improved
    /\ ~iteration_history[3].improved
    /\ current_prompts["pr_faq_generation"].n = 1

\* C28: an update() on a detector whose best_score is 0 adopts any positive
\* score as the best and sets no_improvement_count to 0 (the improvement
\* counts as 100%, and min_improvement_percent is at most 100), while a
\* score of 0 or less adds 1 to the counter and leaves best_score at 0.
C28_BootstrapFromZero ==
    [][ ( UpdateStep /\ Value(detector).best_score = 0 ) =>
          LET d   == Value(detector)
              dd  == Value(detector')
              min == d.config.min_improvement_percent
          IN  /\ ( UpdateScore > 0 /\ min.num <= 100 * min.den )
                 => /\ dd.best_score = UpdateScore
                    /\ dd.no_improvement_count = 0
              /\ UpdateScore <= 0
                 => /\ dd.best_score = 0
                    /\ dd.no_improvement_count
                          = d.no_improvement_count + 1 ]_vars

\* with min_improvement_percent = 0.1, a score of 0 and then a score of 10
\* have been reported to a new detector: the first left the best at 0 and
\* counted, the second became the best and reset the counter
C28_Witness ==
    /\ pc = "no_tuner"
    /\ Value(detector).config.min_improvement_percent = Percent(1, 10)
    /\ [ i \in DOMAIN Value(detector).iteration_history |->
           Value(detector).iteration_history[i].score ]
          = << 0, Points(10) >>
    /\ Value(detector).iteration_history[1].best_score = 0
    /\ Value(detector).best_score = Points(10)
    /\ Value(detector).no_improvement_count = 0

\* C29: the prompts a round after the first evaluates as its baseline are
\* the best prompts the previous round returned.
C29_RoundStartsFromPreviousBest ==
    ( /\ optimizer_pc = "running"
      /\ previous_best # None
      /\ pc = "evaluating"
      /\ iteration = 0 )
    => current_prompts = Value(previous_best)

\* C30: a run without convergence detection has no detector, returns after
\* exactly max_iterations iterations whatever the scores were, and returns
\* no convergence status and no recommendations; and in every returned
\* result, with or without a detector, each record is flagged improved
\* exactly when its score is above the greatest of the baseline score and
\* the scores before it, and carries the greatest score so far as its
\* best_score.
C30_DetectionIsOptional ==
    final_results # None =>
        LET r == Value(final_results)
            h == r.iteration_history
        IN  /\ detector = None
               => /\ Len(h) = max_iterations
                  /\ r.convergence = None
                  /\ r.recommendations = << >>
            /\ detector # None
               => /\ r.convergence # None
                  /\ Len(h) <= max_iterations
            /\ \A i \in DOMAIN h :
                  /\ h[i].iteration = i
                  /\ h[i].improved
                        <=> h[i].score > BestUpTo(r.baseline_score, h, i - 1)
                  /\ h[i].best_score = BestUpTo(r.baseline_score, h, i)
            /\ r.final_score = BestUpTo(r.baseline_score, h, Len(h))

\* a run without a detector has returned after 7 iterations none of which
\* improved on the baseline, where a detector would have stopped the loop
\* after the fifth
C30_Witness ==
    /\ pc = "done"
    /\ detector = None
    /\ max_iterations = 7
    /\ Len(iteration_history) = 7
    /\ \A i \in 1..7 : ~iteration_history[i].improved
    /\ Value(final_results).convergence = None

\* the number of most recent records of h whose mutation was discarded
RECURSIVE DiscardedStreak(_)
DiscardedStreak(h) ==
    IF h = << >> \/ Last(h).improved
    THEN 0
    ELSE 1 + DiscardedStreak(SubSeq(h, 1, Len(h) - 1))

\* C31: in a run with a detector, after every iteration the detector's
\* no_improvement_count is the number of most recent iterations whose
\* mutation the tuner discarded, and the detector's best_score is the
\* tuner's best_score.
C31_DetectorAgreesWithKeepDiscard ==
    ( /\ pc \in { "mutating", "evaluating", "done" }
      /\ detector # None
      /\ iteration_history # << >> )
    => /\ Value(detector).no_improvement_count
             = DiscardedStreak(iteration_history)
       /\ Value(detector).best_score = best_score

\* C32: in every state of a detector whose no_improvement_threshold is at
\* least 1, converged is true exactly when convergence_iteration is set,
\* and while converged is false no_improvement_count is below the threshold.
C32_ConvergedIffConvergenceIterationSet ==
    ( /\ pc = "no_tuner"
      /\ detector # None
      /\ Value(detector).config.no_improvement_threshold >= 1 )
    => LET d == Value(detector)
       IN  /\ d.converged <=> d.convergence_iteration # None
           /\ ~d.converged
                 => d.no_improvement_count < d.config.no_improvement_threshold

\* a detector with threshold 2 converged on iteration 1 of a zero-based
\* numbering and was then given a significant improvement: the counter is
\* back at 0 and the detector is still converged
C32_Witness ==
    /\ pc = "no_tuner"
    /\ detector # None
    /\ Value(detector).config.no_improvement_threshold = 2
    /\ Value(detector).converged
    /\ Value(detector).convergence_iteration = Some(1)
    /\ Len(Value(detector).iteration_history) = 3
    /\ Value(detector).no_improvement_count = 0

\* C33: in every result returned by a run with a detector, the convergence
\* status reports 0 wasted iterations, a plateau variance of 0 and a
\* plateau average of 0, and the recommendations hold no "could have
\* stopped N iterations earlier" entry.
C33_NoIterationAfterConvergence ==
    ( final_results # None /\ detector # None )
    => LET r == Value(final_results)
           c == Value(r.convergence)
       IN  /\ c.wasted_iterations = 0
           /\ c.plateau_variance = 0
           /\ c.plateau_avg.sum = 0
           /\ \A i \in DOMAIN r.recommendations :
                 r.recommendations[i].kind # "could_have_stopped_earlier"

\* a run of 7 iterations was stopped by its detector after iteration 6 and
\* has returned
C33_Witness ==
    /\ pc = "done"
    /\ final_results # None
    /\ max_iterations = 7
    /\ Value(final_results).convergence # None
    /\ Value(Value(final_results).convergence).converged
    /\ Value(Value(final_results).convergence).convergence_iteration = Some(6)
    /\ Len(Value(final_results).iteration_history) = 6

\* the detector stopped the loop of a returned run before its last iteration
StoppedEarly ==
    /\ pc = "done"
    /\ detector # None
    /\ Len(iteration_history) < max_iterations

\* C34: with the tuner's detector (threshold 5, best_score 0 at the start,
\* never given the baseline) no run is stopped before iteration 5, and none
\* before iteration 6 if the score of iteration 1 was positive; so a run
\* with max_iterations <= 4 that returns has done max_iterations iterations.
C34_NoEarlyStopBeforeFifthIteration ==
    /\ StoppedEarly
          => /\ Len(iteration_history) >= 5
             /\ iteration_history[1].score > 0
                   => Len(iteration_history) >= 6
    /\ ( pc = "done" /\ max_iterations <= 4 )
          => Len(iteration_history) = max_iterations

\* a run of 7 iterations whose mutations all scored 0 was stopped by its
\* detector after iteration 5
C34_Witness ==
    /\ StoppedEarly
    /\ max_iterations = 7
    /\ Len(iteration_history) = 5
    /\ \A i \in 1..5 : iteration_history[i].score = 0

\* run_evolution has been left by an error of the simulation or of the
\* evaluation of an iteration after the baseline
EvaluatorFailed ==
    /\ pc = "raised"
    /\ scorer_calls = mutator_calls + 1
    /\ iteration >= 1

\* C35: when the simulation or the evaluation of an iteration k >= 1 has
\* raised, the prompt files are what they were when that evaluation
\* started, and they are the best prompts.
C35_FailedEvaluationRestoresBestPrompts ==
    EvaluatorFailed =>
        /\ prompts_dir = files_before
        /\ prompts_dir = best_prompts

\* C36: every value generate() returns is the content of a response that
\* the responder generated from the request of that very call.
C36_ReturnedResponseAnswersItsRequest ==
    returned # None => Value(returned).answers = Value(returned).call

\* the request file of this id holds the request of this generate() call
HoldsRequest(id, serial) ==
    IF id \in DOMAIN request_dir
    THEN request_dir[id] = RequestFile(id, serial)
    ELSE FALSE

\* the response file of this id exists and is fully written
Answered(id) ==
    IF id \in DOMAIN response_dir THEN response_dir[id].written ELSE FALSE

\* the response file of this id is written and, in the first experiment,
\* was generated from the request of this generate() call
AnsweredFor(id, serial) ==
    IF id \in DOMAIN response_dir
    THEN /\ response_dir[id].written
         /\ experiments = 1 => response_dir[id].serial = serial
    ELSE FALSE

\* C37: while the responder keeps polling, every request file gets a
\* response file with its request id (and, as long as no later client
\* process has taken the same ids again, that response was generated from
\* that request); a request whose processing raised is not marked as
\* processed, a request is marked only when its response is written, and
\* the responder never answers a request it has marked.
C37_EveryRequestEventuallyAnswered ==
    /\ \A id \in 1..MaxRequests :
          (id \in DOMAIN request_dir) ~> Answered(id)
    /\ \A id \in 1..MaxRequests, serial \in 1..MaxRequests :
          HoldsRequest(id, serial) ~> AnsweredFor(id, serial)
    /\ [][ /\ ( /\ responder_pc = "processing"
                /\ new_requests # << >>
                /\ new_requests' = Tail(new_requests)
                /\ responder_pc' = "processing" )
              => /\ processed_requests' = processed_requests
                 /\ response_dir' = response_dir
           /\ ( responder_pc = "processing" /\ responder_pc' = "writing" )
              => Head(new_requests) \notin processed_requests
           /\ ( processed_requests' # processed_requests
                /\ experiments' = experiments )
              => /\ processed_requests'
                       = processed_requests \cup { Head(new_requests) }
                 /\ Head(new_requests) \in DOMAIN response_dir'
                 /\ response_dir'[Head(new_requests)].written ]_vars

\* the responder printed an error for request 1, which it read while the
\* client was writing it, and has answered it on a later poll
C37_Witness ==
    /\ experiments = 1
    /\ 1 \in error_log
    /\ 1 \in processed_requests
    /\ Answered(1)
    /\ response_dir[1].serial = request_dir[1].serial

\* C38: if every mutation and evaluation call returns or raises,
\* run_evolution ends, with a result or with an error, after at most
\* max_iterations iterations and 1 + max_iterations evaluations; with
\* max_iterations = 0 it returns a result with an empty iteration_history
\* whose final_score is the baseline score.
C38_RunEvolutionTerminates ==
    /\ <>(pc \in { "done", "raised" })
    /\ [] ( /\ Len(iteration_history) <= max_iterations
            /\ iteration <= max_iterations
            /\ mutator_calls <= max_iterations
            /\ scorer_calls <= 1 + max_iterations )
    /\ [] ( pc = "done" => final_results # None )
    /\ [] ( ( pc = "done" /\ max_iterations = 0 )
            => /\ Value(final_results).iteration_history = << >>
               /\ Value(final_results).final_score
                     = Value(final_results).baseline_score
               /\ scorer_calls = 1 )

\* a run with max_iterations = 0 has returned after its baseline evaluation
C38_Witness ==
    /\ pc = "done"
    /\ max_iterations = 0
    /\ scorer_calls = 1
    /\ mutator_calls = 0
    /\ final_results # None
    /\ Value(final_results).iteration_history = << >>

====
